---- MODULE Spec2Model ----
(***************************************************************************)
(* Model of the file-backed SimpleMemory store (predined_memory.py,        *)
(* mem0_initialization.py), of the keyword ranker and of the prompt helpers *)
(* (integrate_memory.py).                                                  *)
(*                                                                         *)
(* A storage location holds two files, memories.json and                   *)
(* conversations.json.  A file's content is modelled as the sequence of    *)
(* tokens json.dump writes: an opening bracket, one token per record, a    *)
(* closing bracket.  json.load accepts exactly the complete sequences.     *)
(* Texts are sequences of one-character strings.                           *)
(***************************************************************************)
EXTENDS Integers, Sequences, FiniteSets

(* ------------------------------ bounds -------------------------------- *)

\* Records stored at the location, both collections together.
MaxRecords == 2
\* Largest limit passed to get_conversations / search_relevant_memories.
MaxLimit == 2
\* Longest query given to the ranker under SpecRank.
MaxQueryLen == 3
\* Longest memory collection the ranker is applied to under SpecRank.
MaxRankMems == 2
\* Longest ranked list given to the composer under SpecCompose.
MaxComposeMems == 2

(* ------------------------------ inputs -------------------------------- *)

\* User ids the callers pass; "" is the empty user id.
UserIds == {"a", "b", ""}

\* Timestamps: caller-supplied or datetime.now(); not required to be monotonic.
Timestamps == {1, 2}

\* The timestamps of the appends to the store.  The store copies a timestamp
\* into the record and never reads it, so the appends are given one value;
\* the ranker, which copies timestamps into its results, is given records of
\* both values.
StoreTimestamps == {1}

\* Characters of the queries.
Chars == {"a", "B", " "}

\* Memory texts the callers pass; <<>> is the empty text.
MemoryTexts == {<<>>, <<"A", "b">>, <<"b">>}

\* A content value json cannot encode (a Python set, say).
NotSerialisable == "<object>"

Hello == <<[role |-> "user", content |-> "hi"]>>
Unencodable == <<[role |-> "user", content |-> NotSerialisable]>>

\* messages values the callers pass; <<>> is the empty sequence.
MessageLists == {<<>>, Hello, Unencodable}

Limits == 0 .. MaxLimit

\* Outcome of a file write: it completes, open(.., 'w') raises before the
\* file is touched, or the write stops after open truncated the file.
Failures == {"none", "open", "dump"}

(* ------------------------------- text --------------------------------- *)

\* str.lower() on one character
LowerChar(c) == CASE c = "A" -> "a" [] c = "B" -> "b" [] OTHER -> c

\* str.lower()
Lower(s) == [i \in 1 .. Len(s) |-> LowerChar(s[i])]

IsSpace(c) == c = " "

RECURSIVE SplitFrom(_, _, _, _)
\* str.split() scanning s from position i; cur is the token being read,
\* acc the tokens read so far.  Runs of whitespace separate tokens and empty
\* tokens are never produced.
SplitFrom(s, i, cur, acc) ==
    IF i > Len(s)
    THEN IF cur = <<>> THEN acc ELSE Append(acc, cur)
    ELSE IF IsSpace(s[i])
         THEN SplitFrom(s, i + 1, <<>>, IF cur = <<>> THEN acc ELSE Append(acc, cur))
         ELSE SplitFrom(s, i + 1, Append(cur, s[i]), acc)

\* str.split() with no argument
Split(s) == SplitFrom(s, 1, <<>>, <<>>)

\* keyword in memory_text
Contains(keyword, text) ==
    \E i \in 0 .. (Len(text) - Len(keyword)) :
        SubSeq(text, i + 1, i + Len(keyword)) = keyword

(* ------------------------------- json --------------------------------- *)

OpenTok == [t |-> "[", v |-> <<>>]
CloseTok == [t |-> "]", v |-> <<>>]
ItemTok(rec) == [t |-> "item", v |-> <<rec>>]

\* json.dump(list, f): what a complete write puts in the file
JsonDump(list) ==
    <<OpenTok>> \o [i \in 1 .. Len(list) |-> ItemTok(list[i])] \o <<CloseTok>>

\* json.load(f) succeeds exactly on a complete list
JsonValid(content) ==
    /\ Len(content) >= 2
    /\ content[1] = OpenTok
    /\ content[Len(content)] = CloseTok
    /\ \A i \in 2 .. (Len(content) - 1) : content[i].t = "item"

\* json.load(f) on valid content
JsonLoad(content) == [i \in 1 .. (Len(content) - 2) |-> content[i + 1].v[1]]

\* json can encode the record
Serialisable(rec) ==
    IF "messages" \in DOMAIN rec
    THEN \A i \in 1 .. Len(rec.messages) : rec.messages[i].content # NotSerialisable
    ELSE TRUE

RECURSIVE EncodablePrefix(_)
\* number of leading records of the list json.dump writes out before it
\* meets a record it cannot encode
EncodablePrefix(list) ==
    IF list = <<>> \/ ~Serialisable(Head(list)) THEN 0
    ELSE 1 + EncodablePrefix(Tail(list))

(* ------------------------------ files --------------------------------- *)

Absent == [exists |-> FALSE, content |-> <<>>]
FileOf(content) == [exists |-> TRUE, content |-> content]

\* with open(path, 'r') as f: json.load(f) succeeds
Readable(file) == file.exists /\ JsonValid(file.content)

\* with open(path, 'w') as f: json.dump(list, f ...), with the outcome of the
\* write: fail = "open" leaves the file as it was; fail = "dump" leaves the
\* first k tokens of the output in the truncated file; a list holding a
\* record json cannot encode is written up to that record.
WriteFile(file, list, fail, k) ==
    IF fail = "open" THEN file
    ELSE IF EncodablePrefix(list) < Len(list)
    THEN FileOf(SubSeq(JsonDump(list), 1, 1 + EncodablePrefix(list)))
    ELSE IF fail = "dump" THEN FileOf(SubSeq(JsonDump(list), 1, k))
    ELSE FileOf(JsonDump(list))

\* the write raised
WriteFailed(list, fail) == fail # "none" \/ EncodablePrefix(list) < Len(list)

\* how many tokens a failed dump may leave behind
PartialLens(list) == 0 .. (Len(list) + 1)

(* ------------------------------ slices -------------------------------- *)

Min(x, y) == IF x <= y THEN x ELSE y
Max(x, y) == IF x >= y THEN x ELSE y

\* Python's normalisation of a slice index i for a sequence of length n
SliceIndex(i, n) == IF i < 0 THEN Max(n + i, 0) ELSE Min(i, n)

\* s[start:]
SliceFrom(s, start) == SubSeq(s, SliceIndex(start, Len(s)) + 1, Len(s))

\* s[:stop]
SliceTo(s, stop) == SubSeq(s, 1, SliceIndex(stop, Len(s)))

(* ------------------------------- state -------------------------------- *)

VARIABLES
    memory_file,          \* memories.json at the storage location
    conversations_file,   \* conversations.json at the storage location
    constructed,          \* a SimpleMemory object exists
    result,               \* the last call, its arguments and what it returned or raised
    pre,                  \* history: the two files as they were before the last call
    writers               \* the appends in progress of concurrent writers, by writer

vars == <<memory_file, conversations_file, constructed, result, pre, writers>>

Files == <<memory_file, conversations_file>>

\* what a function hands back: a value, or an exception
Value(v) == [ok |-> TRUE, error |-> "", value |-> v]
Exception(e) == [ok |-> FALSE, error |-> e, value |-> <<>>]

Outcome(op, args, r) ==
    [op |-> op, args |-> args, ok |-> r.ok, error |-> r.error, value |-> r.value]

\* number of records a file holds, readable or not
StoredCount(file) == Cardinality({i \in 1 .. Len(file.content) : file.content[i].t = "item"})

\* the model stops appending at MaxRecords records
RoomLeft == StoredCount(memory_file) + StoredCount(conversations_file) < MaxRecords

\* no call handed back yet, or the caller has taken what the last one handed back
NoCall == Outcome("none", <<>>, Value(<<>>))

\* a single caller: no concurrent writer is at work
NoWriters == <<>>

\* the caller is at its next statement, about to make a call on the store
Ready(handle) == handle /\ result.op = "none"

(* --------------------------- the store: reads -------------------------- *)

\* variant: the user filter is left out
FilterByUserNone(records, user_id) == records

\* [rec for rec in records if rec.get("user_id") == user_id]
FilterByUser(records, user_id) == SelectSeq(records, LAMBDA rec : rec.user_id = user_id)

\* user_conversations[-limit:] if user_conversations else []
RecentWindow(user_conversations, limit) ==
    IF user_conversations # <<>> THEN SliceFrom(user_conversations, -limit) ELSE <<>>

\* SimpleMemory.get_conversations
GetConversations(file, user_id, limit) ==
    IF ~Readable(file) THEN Exception("JSONDecodeError")
    ELSE Value(RecentWindow(FilterByUser(JsonLoad(file.content), user_id), limit))

\* variant: an unreadable file is taken for an empty collection
GetMemoriesLenient(file, user_id) ==
    IF ~Readable(file) THEN Value(<<>>)
    ELSE Value(FilterByUser(JsonLoad(file.content), user_id))

\* SimpleMemory.get_memories
GetMemories(file, user_id) ==
    IF ~Readable(file) THEN Exception("JSONDecodeError")
    ELSE Value(FilterByUser(JsonLoad(file.content), user_id))

\* SimpleMemory.get_stats
GetStats(mfile, cfile) ==
    IF ~Readable(mfile) \/ ~Readable(cfile) THEN Exception("JSONDecodeError")
    ELSE Value([total_memories |-> Len(JsonLoad(mfile.content)),
                total_conversations |-> Len(JsonLoad(cfile.content))])

get_conversations ==
    /\ Ready(constructed)
    /\ \E user_id \in UserIds, limit \in Limits :
        result' = Outcome("get_conversations", <<user_id, limit>>,
                         GetConversations(conversations_file, user_id, limit))
    /\ pre' = Files
    /\ UNCHANGED <<memory_file, conversations_file, constructed, writers>>

get_memories ==
    /\ Ready(constructed)
    /\ \E user_id \in UserIds :
        result' = Outcome("get_memories", <<user_id>>, GetMemories(memory_file, user_id))
    /\ pre' = Files
    /\ UNCHANGED <<memory_file, conversations_file, constructed, writers>>

get_stats ==
    /\ Ready(constructed)
    /\ result' = Outcome("get_stats", <<>>, GetStats(memory_file, conversations_file))
    /\ pre' = Files
    /\ UNCHANGED <<memory_file, conversations_file, constructed, writers>>

(* --------------------------- the store: writes ------------------------- *)

\* the exception a failed write raises
WriteError(list, fail) ==
    IF fail # "open" /\ EncodablePrefix(list) < Len(list) THEN "TypeError" ELSE "OSError"

\* variant: list.insert(0, record)
AppendRecordAtFront(list, record) == <<record>> \o list

\* list.append(record)
AppendRecord(list, record) == Append(list, record)

\* variant: len(list)
RecordIdOneBased(list) == Len(list)

\* the record identifier an append returns: len(list) - 1
RecordId(list) == Len(list) - 1

\* variant: a record equal to the last one stored is not stored again
AppendToFileOnce(file, record, fail, k) ==
    IF ~Readable(file) THEN [file |-> file, out |-> Exception("JSONDecodeError")]
    ELSE LET loaded == JsonLoad(file.content)
             list == IF loaded # <<>> /\ loaded[Len(loaded)] = record
                     THEN loaded ELSE AppendRecord(loaded, record)
         IN
         [file |-> WriteFile(file, list, fail, k),
          out |-> IF WriteFailed(list, fail) THEN Exception(WriteError(list, fail))
                  ELSE Value(RecordId(list))]

\* load the collection, append the record, write the collection back, return
\* the identifier; the file after the call and what the call hands back
AppendToFile(file, record, fail, k) ==
    IF ~Readable(file) THEN [file |-> file, out |-> Exception("JSONDecodeError")]
    ELSE LET list == AppendRecord(JsonLoad(file.content), record) IN
         [file |-> WriteFile(file, list, fail, k),
          out |-> IF WriteFailed(list, fail) THEN Exception(WriteError(list, fail))
                  ELSE Value(RecordId(list))]

\* the inputs (fail, k) describe one outcome of writing the list
WriteChoice(list, fail, k) == IF fail = "dump" THEN k \in PartialLens(list) ELSE k = 0

ConversationRecord(messages, user_id, timestamp) ==
    [user_id |-> user_id, timestamp |-> timestamp, messages |-> messages]

MemoryRecord(memory_text, user_id, timestamp) ==
    [user_id |-> user_id, memory |-> memory_text, timestamp |-> timestamp]

\* SimpleMemory.add_conversation
add_conversation ==
    /\ Ready(constructed)
    /\ RoomLeft
    /\ \E messages \in MessageLists, user_id \in UserIds, timestamp \in StoreTimestamps,
          fail \in Failures, k \in 0 .. (MaxRecords + 1) :
        LET conversation == ConversationRecord(messages, user_id, timestamp)
            r == AppendToFile(conversations_file, conversation, fail, k)
        IN
        /\ Readable(conversations_file)
              => WriteChoice(Append(JsonLoad(conversations_file.content), conversation), fail, k)
        /\ ~Readable(conversations_file) => (fail = "none" /\ k = 0)
        /\ conversations_file' = r.file
        /\ result' = Outcome("add_conversation", <<conversation>>, r.out)
        /\ pre' = Files
        /\ UNCHANGED <<memory_file, constructed, writers>>

\* SimpleMemory.add_memory
add_memory ==
    /\ Ready(constructed)
    /\ RoomLeft
    /\ \E memory_text \in MemoryTexts, user_id \in UserIds, timestamp \in StoreTimestamps,
          fail \in Failures, k \in 0 .. (MaxRecords + 1) :
        LET memory == MemoryRecord(memory_text, user_id, timestamp)
            r == AppendToFile(memory_file, memory, fail, k)
        IN
        /\ Readable(memory_file)
              => WriteChoice(Append(JsonLoad(memory_file.content), memory), fail, k)
        /\ ~Readable(memory_file) => (fail = "none" /\ k = 0)
        /\ memory_file' = r.file
        /\ result' = Outcome("add_memory", <<memory>>, r.out)
        /\ pre' = Files
        /\ UNCHANGED <<conversations_file, constructed, writers>>

\* variant: only the memory file is rewritten
ClearMemoriesOnly(mfile, cfile, fail1, k1, fail2, k2) ==
    [mfile |-> WriteFile(mfile, <<>>, fail1, k1), cfile |-> cfile,
     out |-> IF WriteFailed(<<>>, fail1) THEN Exception(WriteError(<<>>, fail1))
             ELSE Value(<<>>)]

\* SimpleMemory.clear_all_data: the memory file is rewritten first; when that
\* write raises, the conversations file is not reached.
ClearAll(mfile, cfile, fail1, k1, fail2, k2) ==
    IF WriteFailed(<<>>, fail1)
    THEN [mfile |-> WriteFile(mfile, <<>>, fail1, k1), cfile |-> cfile,
          out |-> Exception(WriteError(<<>>, fail1))]
    ELSE [mfile |-> WriteFile(mfile, <<>>, fail1, k1),
          cfile |-> WriteFile(cfile, <<>>, fail2, k2),
          out |-> IF WriteFailed(<<>>, fail2) THEN Exception(WriteError(<<>>, fail2))
                  ELSE Value(<<>>)]

clear_all_data ==
    /\ Ready(constructed)
    /\ \E fail1 \in Failures, k1 \in 0 .. 1, fail2 \in Failures, k2 \in 0 .. 1 :
        LET r == ClearAll(memory_file, conversations_file, fail1, k1, fail2, k2)
        IN
        /\ WriteChoice(<<>>, fail1, k1)
        /\ IF fail1 = "none" THEN WriteChoice(<<>>, fail2, k2) ELSE (fail2 = "none" /\ k2 = 0)
        /\ memory_file' = r.mfile
        /\ conversations_file' = r.cfile
        /\ result' = Outcome("clear_all_data", <<>>, r.out)
        /\ pre' = Files
        /\ UNCHANGED <<constructed, writers>>

(* ------------------------------ start-up ------------------------------- *)

\* variant: the file is written whether or not it exists
InitFileAlways(file) == FileOf(JsonDump(<<>>))

\* if not os.path.exists(path): write an empty list
InitFile(file) == IF ~file.exists THEN FileOf(JsonDump(<<>>)) ELSE file

\* SimpleMemory.__init__ and _init_storage
construct ==
    /\ Ready(TRUE)
    /\ memory_file' = InitFile(memory_file)
    /\ conversations_file' = InitFile(conversations_file)
    /\ constructed' = TRUE
    /\ result' = Outcome("__init__", <<>>, Value(<<>>))
    /\ pre' = Files
    /\ UNCHANGED writers

(* ------------------------------ the ranker ----------------------------- *)

RECURSIVE KeywordHits(_, _)
\* sum(1 for keyword in query_keywords if keyword in memory_text)
KeywordHits(query_keywords, memory_text) ==
    IF query_keywords = <<>> THEN 0
    ELSE (IF Contains(Head(query_keywords), memory_text) THEN 1 ELSE 0)
         + KeywordHits(Tail(query_keywords), memory_text)

\* query.lower().split()
QueryKeywords(query) == Split(Lower(query))

\* variant: the memory text is matched as stored
ScoreCaseSensitive(query_keywords, memory) == KeywordHits(query_keywords, memory.memory)

\* the score of one memory: its text is lower-cased, then matched
Score(query_keywords, memory) == KeywordHits(query_keywords, Lower(memory.memory))

ScoredMemory(memory, score) ==
    [memory |-> memory.memory, score |-> score, timestamp |-> memory.timestamp]

\* if score > 0
Relevant(score) == score > 0

RECURSIVE RelevantMemories(_, _)
\* the loop over the user's memories, keeping those with a positive score
RelevantMemories(memories, query_keywords) ==
    IF memories = <<>> THEN <<>>
    ELSE LET score == Score(query_keywords, Head(memories))
             rest == RelevantMemories(Tail(memories), query_keywords)
         IN  IF Relevant(score) THEN <<ScoredMemory(Head(memories), score)>> \o rest
             ELSE rest

\* variant: equal scores change places
BeforeOrEqual(e, x) == e.score >= x.score

\* e goes before x in the sorted list: key = score, reverse = True
Before(e, x) == e.score > x.score

RECURSIVE InsertSorted(_, _)
\* e, which came later than every element of sorted, takes its place: behind
\* the elements it does not go before (the sort is stable)
InsertSorted(sorted, e) ==
    IF sorted = <<>> THEN <<e>>
    ELSE IF Before(e, Head(sorted)) THEN <<e>> \o sorted
    ELSE <<Head(sorted)>> \o InsertSorted(Tail(sorted), e)

RECURSIVE SortByScore(_)
\* relevant_memories.sort(key=lambda x: x['score'], reverse=True)
SortByScore(list) ==
    IF list = <<>> THEN <<>>
    ELSE InsertSorted(SortByScore(SubSeq(list, 1, Len(list) - 1)), list[Len(list)])

\* relevant_memories[:limit]
TopResults(sorted, limit) == SliceTo(sorted, limit)

\* SimpleMemory.search_relevant_memories
SearchRelevantMemories(file, query, user_id, limit) ==
    LET memories == GetMemories(file, user_id) IN
    IF ~memories.ok THEN memories
    ELSE Value(TopResults(SortByScore(RelevantMemories(memories.value, QueryKeywords(query))),
                          limit))

\* the ranker called with a query and a user id of the given sets
search_relevant_memories(queries, user_ids) ==
    /\ Ready(constructed)
    /\ \E query \in queries, user_id \in user_ids, limit \in Limits :
        result' = Outcome("search_relevant_memories", <<query, user_id, limit>>,
                         SearchRelevantMemories(memory_file, query, user_id, limit))
    /\ pre' = Files
    /\ UNCHANGED <<memory_file, conversations_file, constructed, writers>>

(* ----------------------------- the composer ---------------------------- *)

\* The prompt is a sequence whose elements are the characters of the query
\* and of the memories, the line breaks, and the fixed phrases of the
\* template, each phrase one element.

DigitChars == <<"0", "1", "2", "3", "4", "5", "6", "7", "8", "9">>

RECURSIVE Str(_)
\* f"{i}": the decimal digits of i
Str(i) == IF i < 10 THEN <<DigitChars[i + 1]>>
          ELSE Str(i \div 10) \o <<DigitChars[(i % 10) + 1]>>

ContextHeader ==
    <<"Here's what you know about the user from previous conversations:", "\n", "\n">>

\* variant: enumerate(relevant_memories) without the start value 1
MemoryLineFromZero(i, mem) == Str(i - 1) \o <<".", " ">> \o mem.memory \o <<"\n">>

\* f"{i}. {mem['memory']}\n"
MemoryLine(i, mem) == Str(i) \o <<".", " ">> \o mem.memory \o <<"\n">>

RECURSIVE ContextLines(_, _)
\* the loop over enumerate(relevant_memories, 1), up to the n-th memory
ContextLines(relevant_memories, n) ==
    IF n = 0 THEN <<>>
    ELSE ContextLines(relevant_memories, n - 1) \o MemoryLine(n, relevant_memories[n])

\* context
Context(relevant_memories) ==
    ContextHeader \o ContextLines(relevant_memories, Len(relevant_memories))

PromptOpening ==
    <<"Based on the following context about the user, please provide a personalized and relevant response:",
      "\n", "\n", "CONTEXT:", "\n">>

QueryLabel == <<"\n", "\n", "USER QUERY: ">>

PromptClosing ==
    <<"\n", "\n",
      "Please respond in a natural, conversational way that incorporates relevant details from the context to make your response more personal and helpful.">>

\* enhanced_prompt
EnhancedPrompt(user_query, relevant_memories) ==
    PromptOpening \o Context(relevant_memories) \o QueryLabel \o user_query \o PromptClosing

\* variant: the template is used whether or not there are memories
AlwaysEnhanced(user_query, relevant_memories) ==
    EnhancedPrompt(user_query, relevant_memories)

\* create_memory_enhanced_prompt
CreateMemoryEnhancedPrompt(user_query, relevant_memories) ==
    IF relevant_memories = <<>> THEN user_query
    ELSE EnhancedPrompt(user_query, relevant_memories)

\* the composer called with a query and a ranked list of the given sets
create_memory_enhanced_prompt(queries, ranked_lists) ==
    /\ result.op = "none"
    /\ \E user_query \in queries, relevant_memories \in ranked_lists :
        result' = Outcome("create_memory_enhanced_prompt", <<user_query, relevant_memories>>,
                          Value(CreateMemoryEnhancedPrompt(user_query, relevant_memories)))
    /\ pre' = Files
    /\ UNCHANGED <<memory_file, conversations_file, constructed, writers>>

(* ----------------------------- the generator --------------------------- *)

\* What the external model does with a prompt: generate_content returns a
\* response with a text, generate_content raises, or it returns a response
\* whose text attribute raises.
Generations == {"text", "raises", "no_text"}

\* the prompts handed to the external model
GeneratePrompts == {<<"a">>}

\* response.text of a successful generation
ReplyText == <<"reply">>

\* str(e) of the exception the external call raised
ErrorText(generation) == IF generation = "raises" THEN <<"quota">> ELSE <<"blocked">>

ErrorTag == "Error generating response: "

\* variant: no try/except around the external call
GetGeminiResponseUnguarded(prompt, generation) ==
    IF generation = "text" THEN Value(ReplyText) ELSE Exception("Exception")

\* get_gemini_response: try ... except Exception as e
GetGeminiResponse(prompt, generation) ==
    IF generation = "text" THEN Value(ReplyText)
    ELSE Value(<<ErrorTag>> \o ErrorText(generation))

get_gemini_response ==
    /\ result.op = "none"
    /\ \E prompt \in GeneratePrompts, generation \in Generations :
        result' = Outcome("get_gemini_response", <<prompt, generation>>,
                          GetGeminiResponse(prompt, generation))
    /\ pre' = Files
    /\ UNCHANGED <<memory_file, conversations_file, constructed, writers>>

(* ------------------------------ the caller ----------------------------- *)

\* the caller takes what the call returned or raised and goes on to its next
\* statement (conv_id = memory.add_conversation(...), then the next call)
resume ==
    /\ result.op # "none"
    /\ result' = NoCall
    /\ pre' = Files
    /\ UNCHANGED <<memory_file, conversations_file, constructed, writers>>

(* --------------------------- specifications ---------------------------- *)

\* a fresh storage location, no store object yet
Init ==
    /\ memory_file = Absent
    /\ conversations_file = Absent
    /\ constructed = FALSE
    /\ result = NoCall
    /\ pre = <<Absent, Absent>>
    /\ writers = NoWriters

\* the queries the ranker is given while the store is being written
StoreQueries == {<<"a">>, <<"B", " ", "b">>}

Next ==
    \/ construct
    \/ add_conversation
    \/ add_memory
    \/ get_conversations
    \/ get_memories
    \/ get_stats
    \/ clear_all_data
    \/ search_relevant_memories(StoreQueries, UserIds)
    \/ get_gemini_response
    \/ resume

Spec == Init /\ [][Next]_vars

\* The ranker as a function of the stored memories and of its arguments:
\* the memory collection is any list the appends can have built.
Queries == UNION {[1 .. n -> Chars] : n \in 0 .. MaxQueryLen}

RankUsers == {"a", "b"}

RankRecords ==
    {MemoryRecord(text, user_id, timestamp) :
        text \in MemoryTexts \ {<<>>}, user_id \in RankUsers, timestamp \in Timestamps}

RankLists == UNION {[1 .. n -> RankRecords] : n \in 0 .. MaxRankMems}

InitRank ==
    /\ memory_file \in {FileOf(JsonDump(list)) : list \in RankLists}
    /\ conversations_file = FileOf(JsonDump(<<>>))
    /\ constructed = TRUE
    /\ result = NoCall
    /\ pre = Files
    /\ writers = NoWriters

NextRank == search_relevant_memories(Queries, RankUsers)

SpecRank == InitRank /\ [][NextRank]_vars

\* The composer as a function of the query and of the ranked list it is given.
ComposeTexts == {<<"A", "b">>, <<"b">>, <<"a", "\n", "b">>}

\* entries as the ranker builds them; the later entry may score higher than
\* the earlier one, the composer is not told how the list was ordered
ComposeEntries ==
    {[memory |-> text, score |-> score, timestamp |-> 1] :
        text \in ComposeTexts, score \in {1, 2}}

ComposeLists == UNION {[1 .. n -> ComposeEntries] : n \in 0 .. MaxComposeMems}

InitCompose ==
    /\ memory_file = FileOf(JsonDump(<<>>))
    /\ conversations_file = FileOf(JsonDump(<<>>))
    /\ constructed = TRUE
    /\ result = NoCall
    /\ pre = Files
    /\ writers = NoWriters

NextCompose ==
    \/ create_memory_enhanced_prompt(Queries, ComposeLists)
    \/ resume

SpecCompose == InitCompose /\ [][NextCompose]_vars

\* Start-up as a function of what the storage location holds: storage_path
\* may name a fresh directory or one an earlier run has written to, with
\* both files, or with one of them missing.
LocationMemories == {Absent} \cup {FileOf(JsonDump(list)) : list \in RankLists}

LocationConversations ==
    {Absent, FileOf(JsonDump(<<>>)),
     FileOf(JsonDump(<<ConversationRecord(Hello, "a", 1)>>))}

InitLocation ==
    /\ memory_file \in LocationMemories
    /\ conversations_file \in LocationConversations
    /\ constructed = FALSE
    /\ result = NoCall
    /\ pre = Files
    /\ writers = NoWriters

NextStartUp ==
    \/ construct
    \/ resume

SpecStartUp == InitLocation /\ [][NextStartUp]_vars

(* ------------------------- concurrent writers -------------------------- *)

\* Two callers, each in an append on its own SimpleMemory object for the one
\* storage location.  Nothing in add_conversation or add_memory locks the
\* file, so the steps of the two appends interleave freely: the load
\* (open 'r', json.load), the open for writing (which truncates), and the
\* write of the list the writer holds, which reaches the file when the with
\* block closes it.  A collection of a few records is far smaller than the
\* file buffer, so the text reaches the file in one write at offset 0 of the
\* writer's own file position.
WriterIds == {1, 2}

\* the collection an append works on
FileFor(op) == IF op = "add_memory" THEN memory_file ELSE conversations_file

\* Lengths of the text json.dump(.., indent=2) writes, in characters: the
\* keys, quotes, punctuation, indentation and separator of one record, the
\* timestamp (an isoformat() string), the brackets of a non-empty messages
\* list, and one message of role "user" and content "hi".
MemoryRecordBytes == 66
ConversationRecordBytes == 68
TimestampBytes == 26
MessagesBracketBytes == 4
MessageBytes == 65

\* len(user_id)
UserIdLen(user_id) == IF user_id = "" THEN 0 ELSE 1

\* the characters one record takes in the file
RecordBytes(rec) ==
    IF "memory" \in DOMAIN rec
    THEN MemoryRecordBytes + TimestampBytes + UserIdLen(rec.user_id) + Len(rec.memory)
    ELSE ConversationRecordBytes + TimestampBytes + UserIdLen(rec.user_id)
         + (IF rec.messages = <<>> THEN 0
            ELSE MessagesBracketBytes + MessageBytes * Len(rec.messages))

\* what is left of a longer text behind a shorter one written over it
TailTok == [t |-> "tail", v |-> <<>>]

\* "[" and "]" take one character each; a tail is one character at least
TokBytes(tok) == IF tok.t = "item" THEN RecordBytes(tok.v[1]) ELSE 1

RECURSIVE ContentBytes(_)
\* the length of the file
ContentBytes(content) ==
    IF content = <<>> THEN 0 ELSE TokBytes(Head(content)) + ContentBytes(Tail(content))

\* f.write at offset 0 of a file that another writer may have written to
\* since this writer's open truncated it: the text replaces the characters
\* it covers and what lies beyond it stays
Overlay(existing, written) ==
    IF ContentBytes(existing) > ContentBytes(written)
    THEN written \o <<TailTok>>
    ELSE written

\* variant: the record is appended to what the collection holds when the
\* writer opens it for writing
ListToSaveLatest(loaded, latest, record) == AppendRecord(latest, record)

\* conversations.append(conversation): the list a writer saves is the one
\* it loaded with its record appended, whatever the collection holds by then
ListToSave(loaded, latest, record) == AppendRecord(loaded, record)

\* a writer that has been called and has not loaded yet
Called(op, record) ==
    [pc |-> "called", op |-> op, record |-> record,
     loaded |-> <<>>, list |-> <<>>, value |-> -1]

\* with open(file, 'r') as f: records = json.load(f)
load_collection ==
    /\ constructed
    /\ \E w \in DOMAIN writers :
        /\ writers[w].pc = "called"
        /\ writers' = [writers EXCEPT ![w] =
              IF Readable(FileFor(writers[w].op))
              THEN [@ EXCEPT !.pc = "loaded",
                             !.loaded = JsonLoad(FileFor(writers[w].op).content)]
              ELSE [@ EXCEPT !.pc = "raised"]]
        /\ UNCHANGED <<memory_file, conversations_file, constructed, result, pre>>

\* records.append(record); open(file, 'w'): the file is truncated
open_for_write ==
    /\ constructed
    /\ \E w \in DOMAIN writers :
        LET file == FileFor(writers[w].op)
            latest == IF Readable(file) THEN JsonLoad(file.content) ELSE writers[w].loaded
        IN
        /\ writers[w].pc = "loaded"
        /\ writers' = [writers EXCEPT ![w] =
              [@ EXCEPT !.pc = "opened",
                        !.list = ListToSave(writers[w].loaded, latest, writers[w].record)]]
        /\ memory_file' =
              IF writers[w].op = "add_memory" THEN FileOf(<<>>) ELSE memory_file
        /\ conversations_file' =
              IF writers[w].op = "add_memory" THEN conversations_file ELSE FileOf(<<>>)
        /\ UNCHANGED <<constructed, result, pre>>

\* json.dump(records, f, indent=2), the close of the file, and
\* return len(records) - 1
save_back ==
    /\ constructed
    /\ \E w \in DOMAIN writers :
        LET saved == FileOf(Overlay(FileFor(writers[w].op).content,
                                    JsonDump(writers[w].list)))
        IN
        /\ writers[w].pc = "opened"
        /\ writers' = [writers EXCEPT ![w] =
              [@ EXCEPT !.pc = "returned", !.value = RecordId(writers[w].list)]]
        /\ memory_file' = IF writers[w].op = "add_memory" THEN saved ELSE memory_file
        /\ conversations_file' =
              IF writers[w].op = "add_memory" THEN conversations_file ELSE saved
        /\ UNCHANGED <<constructed, result, pre>>

\* the records the two writers append
RaceRecords(op) ==
    IF op = "add_memory"
    THEN {MemoryRecord(text, "a", ts) : text \in MemoryTexts, ts \in Timestamps}
    ELSE {ConversationRecord(messages, "a", ts) : messages \in {<<>>, Hello},
                                                  ts \in Timestamps}

RaceOps == {"add_conversation", "add_memory"}

\* the collections when the two appends are called: empty, or one record
RaceMemories == {<<>>, <<MemoryRecord(<<"b">>, "b", 1)>>}
RaceConversations == {<<>>, <<ConversationRecord(Hello, "b", 1)>>}

InitRace ==
    /\ memory_file \in {FileOf(JsonDump(list)) : list \in RaceMemories}
    /\ conversations_file \in {FileOf(JsonDump(list)) : list \in RaceConversations}
    /\ constructed = TRUE
    /\ result = NoCall
    /\ pre = Files
    /\ \E op1 \in RaceOps, op2 \in RaceOps :
          \E r1 \in RaceRecords(op1), r2 \in RaceRecords(op2) :
              writers = <<Called(op1, r1), Called(op2, r2)>>

NextRace ==
    \/ load_collection
    \/ open_for_write
    \/ save_back

SpecRace == InitRace /\ [][NextRace]_vars

(* =============================== claims =============================== *)

\* the records of a readable file, in file order
Stored(file) == JsonLoad(file.content)

\* the positions of the user's records in a list
PositionsOf(list, user_id) == {i \in 1 .. Len(list) : list[i].user_id = user_id}

\* the last call was op and it returned
Did(op) == result.op = op /\ result.ok

(* ------------------------------- C1 ----------------------------------- *)

\* the user's conversations, oldest first, as a list of file positions read
\* in increasing order: the k-th of them
NthOf(list, user_id, k) ==
    CHOOSE i \in PositionsOf(list, user_id) :
        Cardinality({j \in PositionsOf(list, user_id) : j <= i}) = k

\* C1: get_conversations(u, limit) with limit >= 0 returns exactly the last
\* min(limit, n) of u's n stored conversations, oldest of the window first.
C1_RecentWindowIsTail ==
    Did("get_conversations") =>
        LET user_id == result.args[1]
            limit == result.args[2]
            list == Stored(conversations_file)
            n == Cardinality(PositionsOf(list, user_id))
            m == IF limit <= n THEN limit ELSE n
        IN  /\ Len(result.value) = m
            /\ \A k \in 1 .. m : result.value[k] = list[NthOf(list, user_id, n - m + k)]

(* ------------------------------- C2 ----------------------------------- *)

\* C2: a successful add_conversation(messages, u) immediately followed by
\* get_conversations(u, N), N >= 1, returns a sequence whose last element is
\* the conversation just appended.
C2_AppendThenListIncludes ==
    Did("add_conversation") =>
        \A N \in 1 .. MaxLimit :
            LET listed == GetConversations(conversations_file, result.args[1].user_id, N)
            IN  /\ listed.ok
                /\ listed.value # <<>>
                /\ listed.value[Len(listed.value)] = result.args[1]

\* an append that succeeded on a collection already holding another user's
\* conversation
C2_Witness ==
    /\ Did("add_conversation")
    /\ Readable(conversations_file)
    /\ Len(Stored(conversations_file)) = 2
    /\ Stored(conversations_file)[1].user_id # result.args[1].user_id
    /\ result.args[1].messages # <<>>

(* ------------------------------- C3 ----------------------------------- *)

\* C3: every record get_memories(b) or get_conversations(b, limit) returns
\* has user_id = b, and every entry the ranker returns for b is the text and
\* timestamp of a stored memory whose user_id is b.
C3_UserIsolation ==
    /\ Did("get_memories") =>
          \A i \in 1 .. Len(result.value) : result.value[i].user_id = result.args[1]
    /\ Did("get_conversations") =>
          \A i \in 1 .. Len(result.value) : result.value[i].user_id = result.args[1]
    /\ Did("search_relevant_memories") =>
          \A i \in 1 .. Len(result.value) :
              \E j \in PositionsOf(Stored(memory_file), result.args[2]) :
                  /\ Stored(memory_file)[j].memory = result.value[i].memory
                  /\ Stored(memory_file)[j].timestamp = result.value[i].timestamp

\* the ranker answered for user b with a memory of b while the collection
\* also holds a memory written under user a
C3_Witness ==
    /\ Did("search_relevant_memories")
    /\ result.args[2] = "b"
    /\ result.value # <<>>
    /\ PositionsOf(Stored(memory_file), "a") # {}

(* ------------------------------- C4 ----------------------------------- *)

\* C4: a completed clear_all_data leaves the store such that get_memories(u)
\* and get_conversations(u, limit) return the empty sequence for every user
\* and limit, and get_stats reports zero memories and zero conversations.
C4_ClearLeavesEmpty ==
    Did("clear_all_data") =>
        /\ \A u \in UserIds : GetMemories(memory_file, u) = Value(<<>>)
        /\ \A u \in UserIds, limit \in Limits :
              GetConversations(conversations_file, u, limit) = Value(<<>>)
        /\ GetStats(memory_file, conversations_file)
              = Value([total_memories |-> 0, total_conversations |-> 0])

\* a completed clear of a store that held a memory and a conversation
C4_Witness ==
    /\ Did("clear_all_data")
    /\ Readable(pre[1]) /\ Len(Stored(pre[1])) >= 1
    /\ Readable(pre[2]) /\ Len(Stored(pre[2])) >= 1

(* ------------------------------- C5 ----------------------------------- *)

\* the file an append works on, now and before the call
TargetFile(op) == IF op = "add_memory" THEN memory_file ELSE conversations_file
TargetBefore(op) == IF op = "add_memory" THEN pre[1] ELSE pre[2]

Appends == {"add_conversation", "add_memory"}

\* C5: the identifier an append returns is the number of records of all
\* users the collection held just before the append, and the collection's
\* element at that zero-based index is the new record.
C5_RecordIdIsPosition ==
    (result.op \in Appends /\ result.ok) =>
        /\ Readable(TargetBefore(result.op))
        /\ Readable(TargetFile(result.op))
        /\ result.value = Len(Stored(TargetBefore(result.op)))
        /\ result.value + 1 \in 1 .. Len(Stored(TargetFile(result.op)))
        /\ Stored(TargetFile(result.op))[result.value + 1] = result.args[1]

\* an append of a memory for one user to a collection holding a memory of
\* another user returned 1
C5_Witness ==
    /\ Did("add_memory")
    /\ result.value = 1
    /\ Stored(memory_file)[1].user_id # result.args[1].user_id

(* ------------------------------- C6 ----------------------------------- *)

\* the input of the append is empty where the store requires content
InvalidInput ==
    \/ result.args[1].user_id = ""
    \/ result.op = "add_conversation" /\ result.args[1].messages = <<>>
    \/ result.op = "add_memory" /\ result.args[1].memory = <<>>

\* C6: an append with empty messages, empty text or an empty user id raises
\* a validation error and leaves the collection as it was.
C6_AppendsValidate ==
    (result.op \in Appends /\ InvalidInput) =>
        /\ ~result.ok
        /\ TargetFile(result.op) = TargetBefore(result.op)

(* ------------------------------- C7 ----------------------------------- *)

Writes == Appends \cup {"clear_all_data"}

\* C7: when the persist step of an append or of clear_all_data fails, no
\* collection that was readable before the call holds truncated or partial
\* content after it.
C7_FailedWriteKeepsLastValid ==
    (result.op \in Writes /\ ~result.ok) =>
        /\ Readable(pre[1]) => Readable(memory_file)
        /\ Readable(pre[2]) => Readable(conversations_file)

(* ------------------------------- C8 ----------------------------------- *)

\* the file exists and json.load rejects its content
Malformed(file) == file.exists /\ ~JsonValid(file.content)

\* C8: with a malformed collection, every call that reads it raises for
\* that call (no empty or partial result), and neither a failing append
\* nor a repeated start-up overwrites the malformed content.
C8_MalformedIsFatal ==
    /\ (result.op \in {"get_memories", "search_relevant_memories"} /\ Malformed(pre[1]))
          => (~result.ok /\ result.error = "JSONDecodeError" /\ result.value = <<>>)
    /\ (result.op = "get_conversations" /\ Malformed(pre[2]))
          => (~result.ok /\ result.error = "JSONDecodeError" /\ result.value = <<>>)
    /\ (result.op = "get_stats" /\ (Malformed(pre[1]) \/ Malformed(pre[2])))
          => (~result.ok /\ result.error = "JSONDecodeError")
    /\ (result.op \in Appends /\ Malformed(TargetBefore(result.op)))
          => (~result.ok /\ result.error = "JSONDecodeError"
              /\ TargetFile(result.op) = TargetBefore(result.op))
    /\ result.op = "__init__"
          => /\ Malformed(pre[1]) => memory_file = pre[1]
             /\ Malformed(pre[2]) => conversations_file = pre[2]

\* the ranker was called while the memory collection held the partial
\* output of a failed write, a record included
C8_Witness ==
    /\ result.op = "search_relevant_memories"
    /\ Malformed(memory_file)
    /\ StoredCount(memory_file) >= 1
    /\ ~result.ok

(* ------------------------------- C9 ----------------------------------- *)

\* a character with its case folded
Folded(c) == IF c = "A" THEN "a" ELSE IF c = "B" THEN "b" ELSE c

\* the tokens of a query, as the pairs <<first, last>> of the positions of
\* its maximal runs of characters other than whitespace
TokenSpans(query) ==
    {span \in (1 .. Len(query)) \X (1 .. Len(query)) :
        /\ span[1] <= span[2]
        /\ \A p \in span[1] .. span[2] : query[p] # " "
        /\ span[1] = 1 \/ query[span[1] - 1] = " "
        /\ span[2] = Len(query) \/ query[span[2] + 1] = " "}

\* the token at the span occurs in the text at some offset, case folded
OccursIn(query, span, text) ==
    \E off \in 0 .. (Len(text) - (span[2] - span[1] + 1)) :
        \A d \in 0 .. (span[2] - span[1]) :
            Folded(text[off + d + 1]) = Folded(query[span[1] + d])

\* the number of tokens of the query, each occurrence counted, that occur
\* in the text
ExpectedScore(query, text) ==
    Cardinality({span \in TokenSpans(query) : OccursIn(query, span, text)})

\* C9: the ranker's score of a memory is the number of query tokens (the
\* query lower-cased and split on whitespace, a repeated token counted once
\* per occurrence) that occur as a substring of the lower-cased memory text.
C9_ScoreCountsTokenHits ==
    Did("search_relevant_memories") =>
        LET query == result.args[1]
            mems == Stored(memory_file)
            mine == PositionsOf(mems, result.args[2])
        IN  /\ \A j \in mine :
                  Score(QueryKeywords(query), mems[j]) = ExpectedScore(query, mems[j].memory)
            /\ \A i \in 1 .. Len(result.value) :
                  \E j \in mine :
                      /\ mems[j].memory = result.value[i].memory
                      /\ mems[j].timestamp = result.value[i].timestamp
                      /\ result.value[i].score = ExpectedScore(query, mems[j].memory)

\* the query "B B" repeats one token, which occurs inside the longer word
\* "Ab": that memory is returned with score 2
C9_Witness ==
    /\ Did("search_relevant_memories")
    /\ result.args[1] = <<"B", " ", "B">>
    /\ result.value # <<>>
    /\ result.value[1].memory = <<"A", "b">>
    /\ result.value[1].score = 2

(* ------------------------------- C10 ---------------------------------- *)

\* C10: for limit >= 0 the ranker returns exactly the first limit entries of
\* the user's memories with score > 0, ordered by score descending, equal
\* scores in insertion order; limit 0 yields the empty sequence and a limit
\* of at least the surviving count yields all survivors.
C10_RankedTopLimit ==
    Did("search_relevant_memories") =>
        LET query == result.args[1]
            limit == result.args[3]
            mems == Stored(memory_file)
            ES(j) == ExpectedScore(query, mems[j].memory)
            S == {j \in PositionsOf(mems, result.args[2]) : ES(j) > 0}
            Rank(j) == 1 + Cardinality({i \in S : ES(i) > ES(j) \/ (ES(i) = ES(j) /\ i < j)})
            m == IF limit <= Cardinality(S) THEN limit ELSE Cardinality(S)
        IN  /\ Len(result.value) = m
            /\ \A k \in 1 .. m :
                  \E j \in S :
                      /\ Rank(j) = k
                      /\ result.value[k] = [memory |-> mems[j].memory, score |-> ES(j),
                                            timestamp |-> mems[j].timestamp]

\* two memories of the user survive, the later one scores higher, and with
\* limit 1 only that one is returned
C10_Witness ==
    /\ Did("search_relevant_memories")
    /\ result.args[3] = 1
    /\ Len(result.value) = 1
    /\ Len(Stored(memory_file)) = 2
    /\ \A j \in 1 .. 2 : Stored(memory_file)[j].user_id = result.args[2]
    /\ ExpectedScore(result.args[1], Stored(memory_file)[1].memory) = 1
    /\ ExpectedScore(result.args[1], Stored(memory_file)[2].memory) = 2
    /\ result.value[1].memory = Stored(memory_file)[2].memory

(* ------------------------------- C11 ---------------------------------- *)

\* C11: for every query, the empty one included, the composer given no
\* memories returns the query exactly, with no template text added.
C11_ComposeNoMemoriesIsQuery ==
    (Did("create_memory_enhanced_prompt") /\ result.args[2] = <<>>) =>
        result.value = result.args[1]

\* the composer was given the empty query and no memories
C11_Witness ==
    /\ Did("create_memory_enhanced_prompt")
    /\ result.args[2] = <<>>
    /\ result.args[1] = <<>>
    /\ result.value = <<>>

(* ------------------------------- C12 ---------------------------------- *)

\* the label of line i, for the line numbers the lists reach
LineLabel(i) == <<"1", "2", "3", "4", "5", "6", "7", "8", "9">>[i]

\* the position in the prompt just before line i of the context: after the
\* five elements of the opening and the three of the header, each earlier
\* line takes its label, ". ", its memory and a line break
LineStart(memories, i) ==
    LET Width(j) == Len(memories[j].memory) + 4
        Sum[k \in 0 .. Len(memories)] == IF k = 0 THEN 0 ELSE Sum[k - 1] + Width(k)
    IN  8 + Sum[i - 1]

\* C12: for a non-empty ranked list the prompt holds, for i = 1..n in the
\* order given, a line "i. <memory i>" with the memory verbatim, and after
\* the context block the query verbatim; nothing else is added or left out.
C12_ComposeListsInOrder ==
    (Did("create_memory_enhanced_prompt") /\ result.args[2] # <<>>) =>
        LET query == result.args[1]
            memories == result.args[2]
            n == Len(memories)
            p == result.value
            after == LineStart(memories, n + 1)
        IN  /\ Len(p) = after + 3 + Len(query) + 3
            /\ \A i \in 1 .. n :
                  LET at == LineStart(memories, i)
                      text == memories[i].memory
                  IN  /\ p[at + 1] = LineLabel(i)
                      /\ p[at + 2] = "."
                      /\ p[at + 3] = " "
                      /\ \A d \in 1 .. Len(text) : p[at + 3 + d] = text[d]
                      /\ p[at + 4 + Len(text)] = "\n"
            /\ p[after + 3] = "USER QUERY: "
            /\ \A d \in 1 .. Len(query) : p[after + 3 + d] = query[d]

\* two memories were given, the lower score first and the first memory with
\* a line break in it: they are listed as given
C12_Witness ==
    /\ Did("create_memory_enhanced_prompt")
    /\ Len(result.args[2]) = 2
    /\ result.args[2][1].score < result.args[2][2].score
    /\ result.args[2][1].memory = <<"a", "\n", "b">>
    /\ result.args[2][2].memory = <<"A", "b">>
    /\ result.args[1] # <<>>

(* ------------------------------- C13 ---------------------------------- *)

\* C13: when the external generation fails, get_gemini_response raises
\* nothing: it returns a display string that opens with the error tag, and
\* both collections are as they were before the call.
C13_GenerationFailureIsReturned ==
    (result.op = "get_gemini_response" /\ result.args[2] # "text") =>
        /\ result.ok
        /\ result.value # <<>>
        /\ result.value[1] = ErrorTag
        /\ memory_file = pre[1]
        /\ conversations_file = pre[2]

\* the generation failed while the store held a memory and a conversation
C13_Witness ==
    /\ result.op = "get_gemini_response"
    /\ result.args[2] = "raises"
    /\ result.ok
    /\ Readable(memory_file) /\ Len(Stored(memory_file)) = 1
    /\ Readable(conversations_file) /\ Len(Stored(conversations_file)) = 1

(* ------------------------------- C14 ---------------------------------- *)

EmptyCollection == FileOf(JsonDump(<<>>))

\* C14: start-up leaves every collection that exists as it is and creates,
\* empty, a collection that is absent; so on an empty location one call or
\* two yield the same two empty collections.
C14_StartUpIdempotent ==
    result.op = "__init__" =>
        /\ result.ok
        /\ pre[1].exists => memory_file = pre[1]
        /\ pre[2].exists => conversations_file = pre[2]
        /\ ~pre[1].exists => memory_file = EmptyCollection
        /\ ~pre[2].exists => conversations_file = EmptyCollection
        /\ (~pre[1].exists /\ ~pre[2].exists) => Files = <<EmptyCollection, EmptyCollection>>
        /\ InitFile(memory_file) = memory_file
        /\ InitFile(conversations_file) = conversations_file

\* a new store object on a location that holds memories and no
\* conversations file: the memories are kept, the conversations file is
\* created empty
C14_Witness ==
    /\ result.op = "__init__"
    /\ Readable(pre[1]) /\ Len(Stored(pre[1])) = 2
    /\ ~pre[2].exists
    /\ memory_file = pre[1]
    /\ conversations_file = EmptyCollection

(* ------------------------------- C15 ---------------------------------- *)

\* both writers have returned from an append on the same collection, each
\* having loaded the collection as it was before either wrote to it
BothLoadedBeforeAnyWrite ==
    /\ Len(writers) = 2
    /\ writers[1].pc = "returned" /\ writers[2].pc = "returned"
    /\ writers[1].op = writers[2].op
    /\ writers[1].loaded = Stored(TargetBefore(writers[1].op))
    /\ writers[2].loaded = Stored(TargetBefore(writers[1].op))

\* C15: when two unlocked writers both load the collection before either
\* rewrites it, and the rewrites leave a readable file, the collection has
\* grown by one record only, that record is one of the two appended, and
\* both writers were returned the same record id.
C15_RaceLosesAppend ==
    (BothLoadedBeforeAnyWrite /\ Readable(TargetFile(writers[1].op))) =>
        LET before == Stored(TargetBefore(writers[1].op))
            after == Stored(TargetFile(writers[1].op))
        IN
        /\ Len(after) = Len(before) + 1
        /\ SubSeq(after, 1, Len(before)) = before
        /\ after[Len(after)] \in {writers[1].record, writers[2].record}
        /\ writers[1].value = Len(before)
        /\ writers[2].value = writers[1].value

\* the interleaving: two different records appended to a collection of one
\* record, both writers returned id 1, and the first writer's record is not
\* in the collection
C15_Witness ==
    /\ BothLoadedBeforeAnyWrite
    /\ Readable(TargetFile(writers[1].op))
    /\ writers[1].record # writers[2].record
    /\ Len(Stored(TargetBefore(writers[1].op))) = 1
    /\ Len(Stored(TargetFile(writers[1].op))) = 2
    /\ \A i \in 1 .. 2 : Stored(TargetFile(writers[1].op))[i] # writers[1].record
    /\ writers[1].value = 1 /\ writers[2].value = 1

(* ------------------------------- C16 ---------------------------------- *)

IsPrefix(s, t) == Len(s) <= Len(t) /\ SubSeq(t, 1, Len(s)) = s

OtherFile(op) == IF op = "add_memory" THEN conversations_file ELSE memory_file
OtherBefore(op) == IF op = "add_memory" THEN pre[2] ELSE pre[1]

\* C16: a successful append leaves its collection as it was with the new
\* record added at the end, and the other collection as it was; and across
\* any call but clear_all_data a collection's earlier content is a prefix of
\* its later content, for the whole collection and for each user's records.
C16_AppendOnlyFrame ==
    /\ (result.op \in Appends /\ result.ok) =>
           /\ Readable(TargetBefore(result.op))
           /\ Readable(TargetFile(result.op))
           /\ Stored(TargetFile(result.op))
                  = Stored(TargetBefore(result.op)) \o <<result.args[1]>>
           /\ OtherFile(result.op) = OtherBefore(result.op)
    /\ result.op # "clear_all_data" =>
           \A i \in 1 .. 2 :
               (Readable(pre[i]) /\ Readable(Files[i])) =>
                   /\ IsPrefix(Stored(pre[i]), Stored(Files[i]))
                   /\ \A user_id \in UserIds :
                          IsPrefix(FilterByUser(Stored(pre[i]), user_id),
                                   FilterByUser(Stored(Files[i]), user_id))

\* a memory equal to the one already stored is appended: the collection
\* holds it twice and the conversations are as they were
C16_Witness ==
    /\ Did("add_memory")
    /\ Len(Stored(pre[1])) = 1
    /\ Stored(pre[1])[1] = result.args[1]
    /\ Stored(memory_file) = <<result.args[1], result.args[1]>>
    /\ conversations_file = pre[2]

====
